---- MODULE Spec2Model ----
(***************************************************************************)
(* Offline jump detection of Airtime (analysis/analyze_jumps.py).          *)
(*                                                                         *)
(* detect_jumps_offline scans the rows of a session DataFrame once and     *)
(* drives a three-phase machine (ground, potential_takeoff, airborne).     *)
(* The module models each call of the function as a frame d with its own   *)
(* arguments (df, thresholds) and its own locals, and the callers (main,   *)
(* plot_threshold_sweep) that call it over the same session data.          *)
(*                                                                         *)
(* Units: the source computes in float64.  The model is in fixed point:    *)
(*   acceleration  tenths of G            (1.5 G        -> 15)             *)
(*   time          milliseconds           (0.2 s        -> 200)            *)
(*   yaw rate      rad/s                  (integers)                       *)
(*   yaw           rad*ms = millirad      (rate * dt)                      *)
(*   yaw_degrees   millidegrees                                            *)
(* Indexes are the source's 0-based row positions; a column c is a TLA+    *)
(* sequence and row k of it is At(c, k).                                   *)
(***************************************************************************)
EXTENDS Integers, Sequences, FiniteSets, TLC

\* ------------------------------------------------------------------------
\* Bounds of the model
\* ------------------------------------------------------------------------
\* longest session of the dense family (every row drawn from DenseRows)
MaxLen == 3
\* longest session of the sparse family (rows drawn from SparseRows)
MaxLongLen == 6
\* number of calls over the same session in the replay specification
MaxRuns == 2

\* ------------------------------------------------------------------------
\* Program constants
\* ------------------------------------------------------------------------
\* `elapsed > 0.5` in potential_takeoff, in ms
SustainedAfter == 500
\* `elapsed > 5.0` in airborne, in ms
AirborneTimeout == 5000
\* the state machine's three phases, and the value of a frame not yet called
Phases == {"ground", "potential_takeoff", "airborne"}

\* the frames (calls of detect_jumps_offline) the model can hold at once
Dets == {1, 2}

VARIABLES
    df,               \* df[d]: the DataFrame passed to call d (columns)
    cfg,              \* cfg[d]: the threshold arguments of call d
    pc,               \* pc[d]: "idle" | "loop" | "returned"
    i,                \* i[d]: the loop index of call d
    state,            \* state[d]: phase of call d
    jump_start_idx,   \* jump_start_idx[d]
    accumulated_yaw,  \* accumulated_yaw[d]
    jumps,            \* jumps[d]: the list call d is building
    results           \* the lists returned so far, in the order of return

vars == <<df, cfg, pc, i, state, jump_start_idx, accumulated_yaw, jumps, results>>

\* ------------------------------------------------------------------------
\* Helpers over columns
\* ------------------------------------------------------------------------
\* row k (0-based) of a column
At(col, k) == col[k + 1]

\* len(accel_mag)
NRows(f) == Len(f.accel_mag)

RECURSIVE SeqMax(_, _, _)
\* max of col[lo .. hi] (0-based, both inclusive), lo <= hi
SeqMax(col, lo, hi) ==
    IF lo = hi THEN At(col, lo)
    ELSE LET m == SeqMax(col, lo, hi - 1)
         IN  IF At(col, hi) > m THEN At(col, hi) ELSE m

\* ------------------------------------------------------------------------
\* detect_jumps_offline: the conditions of the loop body
\* ------------------------------------------------------------------------
\* a row on the threshold also starts a candidate
LeavesGroundInclusive(a, c) == a >= c.takeoff_threshold

\* line 103: accel_mag[i] > takeoff_threshold
LeavesGround(a, c) == a > c.takeoff_threshold

\* a row on the ceiling also counts as freefall
InFreefallInclusive(a, c) == a <= c.freefall_ceiling

\* line 112: accel_mag[i] < freefall_ceiling
InFreefall(a, c) == a < c.freefall_ceiling

\* the candidate is abandoned on elapsed time alone
SustainedAccelTimeOnly(a, elapsed, c) == elapsed > SustainedAfter

\* line 116: elapsed > 0.5 and accel_mag[i] > takeoff_threshold
SustainedAccel(a, elapsed, c) ==
    elapsed > SustainedAfter /\ a > c.takeoff_threshold

\* the gate opens at half of min_airtime_s already
LandingGateInclusive(a, elapsed, c) ==
    a > c.landing_threshold /\ 2 * elapsed >= c.min_airtime_s

\* line 125: accel_mag[i] > landing_threshold and elapsed > min_airtime_s * 0.5
\* (elapsed > m/2 is stated as 2*elapsed > m to stay in integers)
LandingGate(a, elapsed, c) ==
    a > c.landing_threshold /\ 2 * elapsed > c.min_airtime_s

\* the confirmation reuses the gate's half of min_airtime_s
LongEnoughHalf(elapsed, c) == 2 * elapsed >= c.min_airtime_s

\* an airtime of exactly min_airtime_s is not confirmed
LongEnoughStrict(elapsed, c) == elapsed > c.min_airtime_s

\* line 126: elapsed >= min_airtime_s
LongEnough(elapsed, c) == elapsed >= c.min_airtime_s

\* the timeout is written 50.0 instead of 5.0
TimedOutLate(elapsed) == elapsed > 10 * AirborneTimeout

\* line 141: elapsed > 5.0
TimedOut(elapsed) == elapsed > AirborneTimeout

\* the fallback is taken for row 1 as well (i > 1 instead of i > 0)
DtFromSecondRow(f, k, c) ==
    IF k > 1 THEN At(f.timestamps, k) - At(f.timestamps, k - 1)
    ELSE 1000 \div c.sample_rate

\* lines 109, 120: dt = timestamps[i] - timestamps[i-1] if i > 0
\*                      else 1.0 / sample_rate          (1 s = 1000 ms)
Dt(f, k, c) ==
    IF k > 0 THEN At(f.timestamps, k) - At(f.timestamps, k - 1)
    ELSE 1000 \div c.sample_rate

\* line 127: np.degrees(x) = x * 180 / pi, with 180/pi = 57.296 and the
\* quotient truncated toward zero; millirad in, millidegrees out
Degrees(x) ==
    IF x >= 0 THEN (x * 57296) \div 1000 ELSE 0 - (((0 - x) * 57296) \div 1000)

\* the slice accel_mag[jump_start_idx:i] leaves the landing row out
PeakExclusive(f, start, k) == SeqMax(f.accel_mag, start, k - 1)

\* line 128: accel_mag[jump_start_idx:i + 1].max()
Peak(f, start, k) == SeqMax(f.accel_mag, start, k)

\* start_time is read at the landing row
JumpDictStartAtEnd(f, start, k, elapsed, yaw) ==
    [ start_idx      |-> start,
      end_idx        |-> k,
      start_time     |-> At(f.timestamps, k),
      end_time       |-> At(f.timestamps, k),
      duration_s     |-> elapsed,
      yaw_degrees    |-> Degrees(yaw),
      peak_accel     |-> Peak(f, start, k),
      landing_impact |-> At(f.accel_mag, k) ]

\* lines 129-138: the dict appended to jumps
JumpDict(f, start, k, elapsed, yaw) ==
    [ start_idx      |-> start,
      end_idx        |-> k,
      start_time     |-> At(f.timestamps, start),
      end_time       |-> At(f.timestamps, k),
      duration_s     |-> elapsed,
      yaw_degrees    |-> Degrees(yaw),
      peak_accel     |-> Peak(f, start, k),
      landing_impact |-> At(f.accel_mag, k) ]

\* ------------------------------------------------------------------------
\* detect_jumps_offline: one iteration of the loop, per phase.
\* l is the record of the locals [state, jump_start_idx, accumulated_yaw,
\* jumps]; k is the loop index; the result is the locals after the iteration.
\* ------------------------------------------------------------------------
\* the takeoff row is not recorded in jump_start_idx
OnGroundKeepsStart(l, f, k, c) ==
    IF LeavesGround(At(f.accel_mag, k), c)
    THEN [l EXCEPT !.state = "potential_takeoff", !.accumulated_yaw = 0]
    ELSE l

\* the takeoff row puts the machine straight into airborne
OnGroundStraightToAirborne(l, f, k, c) ==
    IF LeavesGround(At(f.accel_mag, k), c)
    THEN [l EXCEPT !.state = "airborne",
                   !.jump_start_idx = k,
                   !.accumulated_yaw = 0]
    ELSE l

\* the takeoff does not reset the yaw accumulator
OnGroundKeepsYaw(l, f, k, c) ==
    IF LeavesGround(At(f.accel_mag, k), c)
    THEN [l EXCEPT !.state = "potential_takeoff", !.jump_start_idx = k]
    ELSE l

\* lines 102-106
OnGround(l, f, k, c) ==
    IF LeavesGround(At(f.accel_mag, k), c)
    THEN [l EXCEPT !.state = "potential_takeoff",
                   !.jump_start_idx = k,
                   !.accumulated_yaw = 0]
    ELSE l

\* no rotation is accumulated before the machine is airborne
OnPotentialTakeoffNoYaw(l, f, k, c) ==
    LET a       == At(f.accel_mag, k)
        s1      == IF InFreefall(a, c) THEN "airborne" ELSE l.state
        elapsed == At(f.timestamps, k) - At(f.timestamps, l.jump_start_idx)
        s2      == IF SustainedAccel(a, elapsed, c) THEN "ground" ELSE s1
    IN  [l EXCEPT !.state = s2]

\* lines 108-117: two independent ifs, the second one wins
OnPotentialTakeoff(l, f, k, c) ==
    LET a       == At(f.accel_mag, k)
        yaw     == l.accumulated_yaw + At(f.rotation_z, k) * Dt(f, k, c)
        s1      == IF InFreefall(a, c) THEN "airborne" ELSE l.state
        elapsed == At(f.timestamps, k) - At(f.timestamps, l.jump_start_idx)
        s2      == IF SustainedAccel(a, elapsed, c) THEN "ground" ELSE s1
    IN  [l EXCEPT !.accumulated_yaw = yaw, !.state = s2]

\* the landing does not put the machine back on the ground
OnAirborneStaysAirborne(l, f, k, c) ==
    LET a       == At(f.accel_mag, k)
        yaw     == l.accumulated_yaw + At(f.rotation_z, k) * Dt(f, k, c)
        elapsed == At(f.timestamps, k) - At(f.timestamps, l.jump_start_idx)
        gate    == LandingGate(a, elapsed, c)
        js      == IF gate /\ LongEnough(elapsed, c)
                   THEN Append(l.jumps,
                               JumpDict(f, l.jump_start_idx, k, elapsed, yaw))
                   ELSE l.jumps
        s2      == IF TimedOut(elapsed) THEN "ground" ELSE l.state
    IN  [l EXCEPT !.accumulated_yaw = yaw, !.jumps = js, !.state = s2]

\* lines 119-142
OnAirborne(l, f, k, c) ==
    LET a       == At(f.accel_mag, k)
        yaw     == l.accumulated_yaw + At(f.rotation_z, k) * Dt(f, k, c)
        elapsed == At(f.timestamps, k) - At(f.timestamps, l.jump_start_idx)
        gate    == LandingGate(a, elapsed, c)
        js      == IF gate /\ LongEnough(elapsed, c)
                   THEN Append(l.jumps,
                               JumpDict(f, l.jump_start_idx, k, elapsed, yaw))
                   ELSE l.jumps
        s1      == IF gate THEN "ground" ELSE l.state
        s2      == IF TimedOut(elapsed) THEN "ground" ELSE s1
    IN  [l EXCEPT !.accumulated_yaw = yaw, !.jumps = js, !.state = s2]

\* lines 101-142: the body of `for i in range(len(accel_mag))`
Body(l, f, k, c) ==
    CASE l.state = "ground"            -> OnGround(l, f, k, c)
      [] l.state = "potential_takeoff" -> OnPotentialTakeoff(l, f, k, c)
      [] l.state = "airborne"          -> OnAirborne(l, f, k, c)
      [] OTHER                         -> l

\* lines 96-99: the locals at entry
FreshLocals ==
    [state |-> "ground", jump_start_idx |-> 0, accumulated_yaw |-> 0,
     jumps |-> <<>>]

RECURSIVE LoopFrom(_, _, _, _, _)
\* lines 101-142: the iterations k .. n-1 of the loop, from the locals l
LoopFrom(l, f, k, n, c) ==
    IF k >= n THEN l
    ELSE LoopFrom(Body(l, f, k, c), f, k + 1, n, c)

\* lines 80-144: the whole call, as a function of its arguments
DetectJumpsOffline(f, c) == LoopFrom(FreshLocals, f, 0, NRows(f), c).jumps

\* the locals of frame d, as a record
Locals(d) ==
    [state |-> state[d], jump_start_idx |-> jump_start_idx[d],
     accumulated_yaw |-> accumulated_yaw[d], jumps |-> jumps[d]]

\* ------------------------------------------------------------------------
\* Arguments: the sessions and threshold sets the model runs over
\* ------------------------------------------------------------------------
\* a session is a sequence of rows [a, dt, g]: magnitude, time since the
\* previous row, yaw rate
RowSet(A, D, G) == [a : A, dt : D, g : G]

\* every sequence of at most n rows of R
RowSeqs(R, n) == UNION {[1..m -> R] : m \in 0..n}

RECURSIVE Stamp(_, _)
\* load_session line 48: Time_s = Timestamp - Timestamp.iloc[0], so row 0 is
\* at time 0 and later rows follow at the (non-negative) steps dt
Stamp(rs, k) == IF k <= 1 THEN 0 ELSE Stamp(rs, k - 1) + rs[k].dt

\* the three columns detect_jumps_offline reads (lines 92-94)
Frame(rs) ==
    [ accel_mag  |-> [k \in 1..Len(rs) |-> rs[k].a],
      rotation_z |-> [k \in 1..Len(rs) |-> rs[k].g],
      timestamps |-> [k \in 1..Len(rs) |-> Stamp(rs, k)] ]

Frames(R, n) == {Frame(rs) : rs \in RowSeqs(R, n)}

\* dense family: short sessions, every timing case of the machine
\* (steps that sum to half, under, exactly and over min_airtime_s; a step
\* over 0.5 s; a step over 5 s)
DenseRows == RowSet({1, 20, 30}, {0, 50, 100, 600, 5100}, {1})
\* edge family: magnitudes on and next to each threshold of the defaults
EdgeRows == RowSet({1, 4, 15, 16, 25, 26, 40}, {100}, {1})
\* yaw family: both signs of rotation, two step lengths
YawRows == RowSet({1, 30}, {100, 200}, {-1, 2})
\* sparse family: long sessions, room for two candidates
SparseRows == RowSet({1, 30}, {50, 100}, {1})

\* the reference run: 3 s at 50 Hz (150 rows, 20 ms apart), 1.0 G except
\* 3.0 G at t = 1.0 s, 0.1 G for the next `low` rows, 4.0 G at t = 1.4 s
ReferenceRun(low) ==
    [ accel_mag  |-> [k \in 1..150 |->
                        IF k - 1 = 50 THEN 30
                        ELSE IF k - 1 > 50 /\ k - 1 <= 50 + low THEN 1
                        ELSE IF k - 1 = 70 THEN 40
                        ELSE 10],
      rotation_z |-> [k \in 1..150 |-> 1],
      timestamps |-> [k \in 1..150 |-> (k - 1) * 20] ]

\* "0.1 G for the next 0.3 s": up to t = 1.3 s (15 rows) or up to the
\* landing spike (19 rows)
ReferenceRuns == {ReferenceRun(15), ReferenceRun(19)}

\* lines 81-85: the defaults of detect_jumps_offline
DefaultConfig ==
    [ takeoff_threshold |-> 15, landing_threshold |-> 25,
      min_airtime_s |-> 200, freefall_ceiling |-> 4, sample_rate |-> 50 ]

\* other positive threshold sets: landing below takeoff, a freefall ceiling
\* above the takeoff threshold, a shorter minimum airtime at another rate
PositiveConfigs ==
    { DefaultConfig,
      [DefaultConfig EXCEPT !.takeoff_threshold = 25, !.landing_threshold = 15],
      [DefaultConfig EXCEPT !.freefall_ceiling = 25],
      [DefaultConfig EXCEPT !.min_airtime_s = 100, !.sample_rate = 100] }

\* threshold sets with a field that is not positive
NonPositiveConfigs ==
    { [DefaultConfig EXCEPT !.sample_rate = 0],
      [DefaultConfig EXCEPT !.takeoff_threshold = 0, !.min_airtime_s = -100] }

Configs == PositiveConfigs \cup NonPositiveConfigs

\* every field of the thresholds is strictly positive
Positive(c) ==
    /\ c.takeoff_threshold > 0
    /\ c.landing_threshold > 0
    /\ c.min_airtime_s > 0
    /\ c.freefall_ceiling > 0
    /\ c.sample_rate > 0

\* the (session, thresholds) pairs of a single call
Arguments ==
    (Frames(DenseRows, MaxLen) \X Configs)
    \cup (Frames(EdgeRows, MaxLen) \X {DefaultConfig})
    \cup (Frames(YawRows, MaxLen) \X {DefaultConfig})
    \cup (Frames(SparseRows, MaxLongLen) \X PositiveConfigs)
    \cup (ReferenceRuns \X {DefaultConfig})

\* ------------------------------------------------------------------------
\* State machine
\* ------------------------------------------------------------------------
\* no call is running; every frame is given the same session and thresholds
InitWith(args) ==
    /\ \E fc \in args :
          /\ df = [d \in Dets |-> fc[1]]
          /\ cfg = [d \in Dets |-> fc[2]]
    /\ pc = [d \in Dets |-> "idle"]
    /\ i = [d \in Dets |-> 0]
    /\ state = [d \in Dets |-> "ground"]
    /\ jump_start_idx = [d \in Dets |-> 0]
    /\ accumulated_yaw = [d \in Dets |-> 0]
    /\ jumps = [d \in Dets |-> <<>>]
    /\ results = <<>>

Init == InitWith(Arguments)

\* the list outlives the call (a list shared by every call)
CallKeepsJumps(d) ==
    /\ pc[d] = "idle"
    /\ pc' = [pc EXCEPT ![d] = "loop"]
    /\ i' = [i EXCEPT ![d] = 0]
    /\ state' = [state EXCEPT ![d] = FreshLocals.state]
    /\ jump_start_idx' = [jump_start_idx EXCEPT ![d] = FreshLocals.jump_start_idx]
    /\ accumulated_yaw' = [accumulated_yaw EXCEPT ![d] = FreshLocals.accumulated_yaw]
    /\ UNCHANGED <<df, cfg, results, jumps>>

\* lines 92-99: entry of detect_jumps_offline, the locals are created
Call(d) ==
    /\ pc[d] = "idle"
    /\ pc' = [pc EXCEPT ![d] = "loop"]
    /\ i' = [i EXCEPT ![d] = 0]
    /\ state' = [state EXCEPT ![d] = FreshLocals.state]
    /\ jump_start_idx' = [jump_start_idx EXCEPT ![d] = FreshLocals.jump_start_idx]
    /\ accumulated_yaw' = [accumulated_yaw EXCEPT ![d] = FreshLocals.accumulated_yaw]
    /\ jumps' = [jumps EXCEPT ![d] = FreshLocals.jumps]
    /\ UNCHANGED <<df, cfg, results>>

\* the yaw accumulator is one variable shared by every call
IterateSharedYaw(d) ==
    /\ pc[d] = "loop"
    /\ i[d] < NRows(df[d])
    /\ LET l == Body(Locals(d), df[d], i[d], cfg[d])
       IN  /\ state' = [state EXCEPT ![d] = l.state]
           /\ jump_start_idx' = [jump_start_idx EXCEPT ![d] = l.jump_start_idx]
           /\ accumulated_yaw' = [e \in Dets |-> l.accumulated_yaw]
           /\ jumps' = [jumps EXCEPT ![d] = l.jumps]
    /\ i' = [i EXCEPT ![d] = i[d] + 1]
    /\ UNCHANGED <<df, cfg, pc, results>>

\* lines 101-142: one iteration of the loop of call d
Iterate(d) ==
    /\ pc[d] = "loop"
    /\ i[d] < NRows(df[d])
    /\ LET l == Body(Locals(d), df[d], i[d], cfg[d])
       IN  /\ state' = [state EXCEPT ![d] = l.state]
           /\ jump_start_idx' = [jump_start_idx EXCEPT ![d] = l.jump_start_idx]
           /\ accumulated_yaw' = [accumulated_yaw EXCEPT ![d] = l.accumulated_yaw]
           /\ jumps' = [jumps EXCEPT ![d] = l.jumps]
    /\ i' = [i EXCEPT ![d] = i[d] + 1]
    /\ UNCHANGED <<df, cfg, pc, results>>

\* line 144: the loop is over, the list is returned to the caller
Return(d) ==
    /\ pc[d] = "loop"
    /\ i[d] = NRows(df[d])
    /\ pc' = [pc EXCEPT ![d] = "returned"]
    /\ results' = Append(results, jumps[d])
    /\ UNCHANGED <<df, cfg, i, state, jump_start_idx, accumulated_yaw, jumps>>

\* the caller calls again over the same session with the same thresholds:
\* main calls with the defaults (line 379) and plot_threshold_sweep calls
\* again with takeoff 1.5 and landing 2.5 among its grid (lines 264-268)
Replay(d) ==
    /\ pc[d] = "returned"
    /\ Len(results) < MaxRuns
    /\ pc' = [pc EXCEPT ![d] = "idle"]
    /\ UNCHANGED <<df, cfg, i, state, jump_start_idx, accumulated_yaw, jumps,
                   results>>

\* a single call: main, line 379
Next == Call(1) \/ Iterate(1) \/ Return(1)

Spec == Init /\ [][Next]_vars

\* repeated calls over one session
ReplayArguments ==
    (Frames(DenseRows, MaxLen) \X Configs)
    \cup (Frames(YawRows, MaxLen) \X {DefaultConfig})
    \cup (ReferenceRuns \X {DefaultConfig})

InitReplay == InitWith(ReplayArguments)

NextReplay == Call(1) \/ Iterate(1) \/ Return(1) \/ Replay(1)

SpecReplay == InitReplay /\ [][NextReplay]_vars

\* two calls with different thresholds over one session, their iterations
\* interleaved in any order
SweepRows == RowSet({1, 20, 30}, {100, 200}, {-1, 2})

SweepConfigs ==
    { DefaultConfig,
      [DefaultConfig EXCEPT !.takeoff_threshold = 25, !.landing_threshold = 15],
      [DefaultConfig EXCEPT !.min_airtime_s = 100, !.sample_rate = 100] }

InitSweep ==
    /\ \E f \in Frames(SweepRows, MaxLen) :
          df = [d \in Dets |-> f]
    /\ \E c1, c2 \in SweepConfigs :
          /\ c1 # c2
          /\ cfg = [d \in Dets |-> IF d = 1 THEN c1 ELSE c2]
    /\ pc = [d \in Dets |-> "idle"]
    /\ i = [d \in Dets |-> 0]
    /\ state = [d \in Dets |-> "ground"]
    /\ jump_start_idx = [d \in Dets |-> 0]
    /\ accumulated_yaw = [d \in Dets |-> 0]
    /\ jumps = [d \in Dets |-> <<>>]
    /\ results = <<>>

NextSweep == \E d \in Dets : Call(d) \/ Iterate(d) \/ Return(d)

SpecSweep == InitSweep /\ [][NextSweep]_vars

\* a session cut at row s: the rows before s go to one call, the rows from
\* s on to a second call made after the first has returned.  The columns
\* keep their values (Time_s stays the session's time), the row positions
\* of the second call start again at 0.
RowsBefore(f, s) ==
    [ accel_mag  |-> SubSeq(f.accel_mag, 1, s),
      rotation_z |-> SubSeq(f.rotation_z, 1, s),
      timestamps |-> SubSeq(f.timestamps, 1, s) ]

RowsFrom(f, s) ==
    [ accel_mag  |-> SubSeq(f.accel_mag, s + 1, NRows(f)),
      rotation_z |-> SubSeq(f.rotation_z, s + 1, NRows(f)),
      timestamps |-> SubSeq(f.timestamps, s + 1, NRows(f)) ]

SplitArguments ==
    (Frames(DenseRows, MaxLen) \X PositiveConfigs)
    \cup (Frames(YawRows, MaxLen) \X {DefaultConfig})
    \cup (Frames(SparseRows, MaxLongLen) \X {DefaultConfig})

InitSplit ==
    /\ \E fc \in SplitArguments :
          \E s \in 0 .. NRows(fc[1]) :
              /\ df = [d \in Dets |-> IF d = 1 THEN RowsBefore(fc[1], s)
                                      ELSE RowsFrom(fc[1], s)]
              /\ cfg = [d \in Dets |-> fc[2]]
    /\ pc = [d \in Dets |-> "idle"]
    /\ i = [d \in Dets |-> 0]
    /\ state = [d \in Dets |-> "ground"]
    /\ jump_start_idx = [d \in Dets |-> 0]
    /\ accumulated_yaw = [d \in Dets |-> 0]
    /\ jumps = [d \in Dets |-> <<>>]
    /\ results = <<>>

\* the second call starts once the first has returned
CallNext(d) == pc[1] = "returned" /\ Call(d)

NextSplit ==
    \/ Call(1) \/ Iterate(1) \/ Return(1)
    \/ CallNext(2) \/ Iterate(2) \/ Return(2)

SpecSplit == InitSplit /\ [][NextSplit]_vars

\* two calls over one session whose thresholds differ in sample_rate only
RateArguments ==
    (Frames(DenseRows, MaxLen)
        \X {DefaultConfig, [DefaultConfig EXCEPT !.freefall_ceiling = 25]})
    \cup (Frames(YawRows, MaxLen) \X {DefaultConfig})

\* other values of sample_rate (Hz)
OtherRates == {1, 100}

InitRates ==
    /\ \E fc \in RateArguments :
          \E r \in OtherRates :
              /\ df = [d \in Dets |-> fc[1]]
              /\ cfg = [d \in Dets |-> IF d = 1 THEN fc[2]
                                       ELSE [fc[2] EXCEPT !.sample_rate = r]]
    /\ pc = [d \in Dets |-> "idle"]
    /\ i = [d \in Dets |-> 0]
    /\ state = [d \in Dets |-> "ground"]
    /\ jump_start_idx = [d \in Dets |-> 0]
    /\ accumulated_yaw = [d \in Dets |-> 0]
    /\ jumps = [d \in Dets |-> <<>>]
    /\ results = <<>>

SpecRates == InitRates /\ [][NextSweep]_vars

\* ------------------------------------------------------------------------
\* Vocabulary of the claims
\* ------------------------------------------------------------------------
\* the 0-based row positions of a session
RowIdx(f) == 0 .. NRows(f) - 1

\* the positions in the list jumps[d]
EventIdx(d) == 1 .. Len(jumps[d])

\* call d has been entered (its locals exist)
Entered(d) == pc[d] \in {"loop", "returned"}

\* elapsed time of row k since the candidate that started at row s
Elapsed(f, s, k) == At(f.timestamps, k) - At(f.timestamps, s)

\* C1: with positive thresholds, every event in the list has
\* duration_s = timestamps[end_idx] - timestamps[start_idx] and
\* duration_s >= min_airtime_s: no shorter candidate is ever in the list.
C1_DurationAtLeastMinAirtime ==
    \A d \in Dets :
        Positive(cfg[d]) =>
            \A n \in EventIdx(d) :
                LET e == jumps[d][n]
                IN  /\ e.duration_s = Elapsed(df[d], e.start_idx, e.end_idx)
                    /\ e.duration_s >= cfg[d].min_airtime_s

\* a finished call that emitted an event lasting exactly min_airtime_s
C1_Witness ==
    /\ pc[1] = "returned"
    /\ Positive(cfg[1])
    /\ \E n \in EventIdx(1) : jumps[1][n].duration_s = cfg[1].min_airtime_s

\* C2: with positive thresholds and no row above takeoff_threshold (the
\* empty session included), the call is on the ground after every row and
\* its list is empty.
C2_NoTakeoffNoEvent ==
    \A d \in Dets :
        ( /\ Positive(cfg[d])
          /\ Entered(d)
          /\ \A k \in RowIdx(df[d]) :
                At(df[d].accel_mag, k) <= cfg[d].takeoff_threshold )
        => /\ state[d] = "ground"
           /\ jumps[d] = <<>>
           /\ (pc[d] = "returned" => results[Len(results)] = <<>>)

\* a finished call over rows none of which exceeds the threshold and one
\* of which is exactly on it
C2_Witness ==
    /\ pc[1] = "returned"
    /\ Positive(cfg[1])
    /\ NRows(df[1]) >= 2
    /\ \A k \in RowIdx(df[1]) :
          At(df[1].accel_mag, k) <= cfg[1].takeoff_threshold
    /\ \E k \in RowIdx(df[1]) :
          At(df[1].accel_mag, k) = cfg[1].takeoff_threshold

\* the events of a list are in strictly increasing start_idx and
\* non-decreasing start_time order
InOrder(js) ==
    \A m, n \in 1 .. Len(js) :
        m < n => /\ js[m].start_idx < js[n].start_idx
                 /\ js[m].start_time <= js[n].start_time

\* C3: one iteration of the loop appends zero or one event and leaves the
\* earlier ones as they were; the list is always in start_idx / start_time
\* order and no two of its events belong to the same candidate.
C3_OnePerStepInOrder ==
    [][ \A d \in Dets :
            /\ InOrder(jumps'[d])
            /\ (pc[d] = "loop" /\ i'[d] = i[d] + 1) =>
                  \/ jumps'[d] = jumps[d]
                  \/ /\ Len(jumps'[d]) = Len(jumps[d]) + 1
                     /\ SubSeq(jumps'[d], 1, Len(jumps[d])) = jumps[d]
                     /\ jumps'[d][Len(jumps'[d])].end_idx = i[d] ]_vars

\* a call that has emitted two events
C3_Witness == Len(jumps[1]) >= 2

\* C4: peak_accel of an event is the maximum of accel_mag over
\* start_idx .. end_idx, both ends included, so it is at least the
\* magnitude at either end, and landing_impact is the magnitude at end_idx.
C4_PeakIsWindowMax ==
    \A d \in Dets : \A n \in EventIdx(d) :
        LET e == jumps[d][n]
            a == df[d].accel_mag
        IN  /\ \A k \in e.start_idx .. e.end_idx : At(a, k) <= e.peak_accel
            /\ \E k \in e.start_idx .. e.end_idx : At(a, k) = e.peak_accel
            /\ e.peak_accel >= At(a, e.start_idx)
            /\ e.peak_accel >= At(a, e.end_idx)
            /\ e.landing_impact = At(a, e.end_idx)

\* an event whose peak is its landing row and exceeds its takeoff row
C4_Witness ==
    \E n \in EventIdx(1) :
        LET e == jumps[1][n]
        IN  /\ e.peak_accel = At(df[1].accel_mag, e.end_idx)
            /\ e.peak_accel > At(df[1].accel_mag, e.start_idx)

\* C5: the reference run under the default thresholds returns exactly one
\* event: start_time 1.0 s, end_time 1.4 s, duration_s 0.4 s,
\* landing_impact 4.0 G.
C5_ReferenceRunOneEvent ==
    ( /\ df[1] \in ReferenceRuns
      /\ cfg[1] = DefaultConfig
      /\ pc[1] = "returned" )
    => /\ Len(results[1]) = 1
       /\ results[1][1].start_time = 1000
       /\ results[1][1].end_time = 1400
       /\ results[1][1].duration_s = 400
       /\ results[1][1].landing_impact = 40

\* the reference run has returned
C5_Witness ==
    /\ df[1] \in ReferenceRuns
    /\ cfg[1] = DefaultConfig
    /\ pc[1] = "returned"
    /\ Len(results) = 1

\* C6: with positive thresholds, a session with no row below
\* freefall_ceiling never puts the call in airborne and yields no event;
\* and every event has a row strictly between start_idx and end_idx whose
\* magnitude is below freefall_ceiling.
C6_NoFreefallNoEvent ==
    \A d \in Dets :
        Positive(cfg[d]) =>
            /\ ( /\ Entered(d)
                 /\ \A k \in RowIdx(df[d]) :
                       At(df[d].accel_mag, k) >= cfg[d].freefall_ceiling )
               => (state[d] # "airborne" /\ jumps[d] = <<>>)
            /\ \A n \in EventIdx(d) :
                  \E k \in RowIdx(df[d]) :
                      /\ jumps[d][n].start_idx < k
                      /\ k < jumps[d][n].end_idx
                      /\ At(df[d].accel_mag, k) < cfg[d].freefall_ceiling

\* a finished call over three or more rows, none below the ceiling, one on
\* it, one above the takeoff threshold and one above the landing threshold
C6_Witness ==
    /\ pc[1] = "returned"
    /\ Positive(cfg[1])
    /\ NRows(df[1]) >= 3
    /\ \A k \in RowIdx(df[1]) :
          At(df[1].accel_mag, k) >= cfg[1].freefall_ceiling
    /\ \E k \in RowIdx(df[1]) :
          At(df[1].accel_mag, k) = cfg[1].freefall_ceiling
    /\ At(df[1].accel_mag, 0) > cfg[1].takeoff_threshold
    /\ At(df[1].accel_mag, NRows(df[1]) - 1) > cfg[1].landing_threshold

\* call d is airborne and about to process a row above landing_threshold
\* whose elapsed time is exactly half of min_airtime_s
AtGateBoundary(d) ==
    /\ pc[d] = "loop"
    /\ i[d] < NRows(df[d])
    /\ state[d] = "airborne"
    /\ At(df[d].accel_mag, i[d]) > cfg[d].landing_threshold
    /\ 2 * Elapsed(df[d], jump_start_idx[d], i[d]) = cfg[d].min_airtime_s

\* C7: an airborne call that processes a row above landing_threshold at
\* elapsed = min_airtime_s / 2 exactly appends nothing, and the candidate
\* stays open (the gate is not passed: elapsed must exceed the half).
C7_GateBoundaryNoEvent ==
    [][ \A d \in Dets :
            (AtGateBoundary(d) /\ i'[d] = i[d] + 1) =>
                /\ jumps'[d] = jumps[d]
                /\ (Elapsed(df[d], jump_start_idx[d], i[d]) <= AirborneTimeout
                      => state'[d] = "airborne") ]_vars

\* the boundary row has been processed: under the defaults (where a row
\* above landing_threshold cannot be the freefall row) the call is still
\* airborne right after such a row
C7_Witness ==
    /\ cfg[1] = DefaultConfig
    /\ pc[1] = "loop"
    /\ i[1] >= 2
    /\ state[1] = "airborne"
    /\ At(df[1].accel_mag, i[1] - 1) > cfg[1].landing_threshold
    /\ 2 * Elapsed(df[1], jump_start_idx[1], i[1] - 1) = cfg[1].min_airtime_s
    /\ jumps[1] = <<>>

\* C8: a call whose thresholds are not all positive fails before any row
\* is processed: it never enters the loop, returns nothing and emits
\* nothing.
C8_InvalidConfigurationRejected ==
    \A d \in Dets :
        ~Positive(cfg[d]) =>
            /\ pc[d] # "returned"
            /\ i[d] = 0
            /\ jumps[d] = <<>>
            /\ results = <<>>

\* C9: every call over the same session with the same thresholds returns
\* the same list: nothing of an earlier call is left in a later one.
C9_ReplayIdentical ==
    /\ \A m, n \in 1 .. Len(results) : results[m] = results[n]
    /\ \A d \in Dets :
          Entered(d) =>
              Locals(d) = LoopFrom(FreshLocals, df[d], 0, i[d], cfg[d])

\* the second call has returned and the list is not empty
C9_Witness ==
    /\ Len(results) = 2
    /\ pc[1] = "returned"
    /\ results[2] # <<>>

\* C10: whatever the interleaving, the locals of each call are those of the
\* same call run alone over its first i rows, and the list it returns is
\* the one it returns alone.
C10_InterleavedAsAlone ==
    \A d \in Dets :
        /\ Entered(d) =>
              Locals(d) = LoopFrom(FreshLocals, df[d], 0, i[d], cfg[d])
        /\ pc[d] = "returned" =>
              jumps[d] = DetectJumpsOffline(df[d], cfg[d])

\* both calls are in their loops at different rows and in different
\* phases, one with an event and the other with none
C10_Witness ==
    /\ pc[1] = "loop" /\ pc[2] = "loop"
    /\ 0 < i[1] /\ i[1] < i[2]
    /\ cfg[1] # cfg[2]
    /\ df[1] = df[2]
    /\ state[1] # state[2]
    /\ jumps[1] = <<>> /\ jumps[2] # <<>>

\* the session of which df[1] holds the first rows and df[2] the others
WholeSession ==
    [ accel_mag  |-> df[1].accel_mag \o df[2].accel_mag,
      rotation_z |-> df[1].rotation_z \o df[2].rotation_z,
      timestamps |-> df[1].timestamps \o df[2].timestamps ]

\* the events of a list with their row positions moved s rows on
Shifted(js, s) ==
    [n \in 1 .. Len(js) |->
        [js[n] EXCEPT !.start_idx = @ + s, !.end_idx = @ + s]]

\* the lists of the two calls over the parts, as one list in the row
\* positions of the whole session
CombinedEvents == results[1] \o Shifted(results[2], NRows(df[1]))

\* the list of one call over the whole session
ContinuousEvents == DetectJumpsOffline(WholeSession, cfg[1])

\* C11: cutting a session is not transparent.  Whenever the continuous run
\* has an event whose candidate is open at the cut (start_idx before the
\* cut, end_idx at or after it), the two calls over the parts do not return
\* that event and their combined list differs from the continuous one; the
\* combined list equals the continuous one whenever the continuous run is
\* on the ground at the cut.
C11_SplitLosesOpenCandidate ==
    (pc[1] = "returned" /\ pc[2] = "returned" /\ Len(results) = 2) =>
        LET s    == NRows(df[1])
            cont == ContinuousEvents
            comb == CombinedEvents
            atCut == LoopFrom(FreshLocals, WholeSession, 0, s, cfg[1])
        IN  /\ \A n \in 1 .. Len(cont) :
                  (cont[n].start_idx < s /\ cont[n].end_idx >= s) =>
                      /\ comb # cont
                      /\ \A m \in 1 .. Len(comb) : comb[m] # cont[n]
            /\ atCut.state = "ground" => comb = cont

\* both parts have been run, the continuous run has an event across the
\* cut, and the combined list differs from the continuous one
C11_Witness ==
    /\ pc[1] = "returned" /\ pc[2] = "returned" /\ Len(results) = 2
    /\ CombinedEvents # ContinuousEvents
    /\ \E n \in 1 .. Len(ContinuousEvents) :
          /\ ContinuousEvents[n].start_idx < NRows(df[1])
          /\ ContinuousEvents[n].end_idx >= NRows(df[1])

\* call d is about to process row i[d] in phase p
About(d, p) ==
    /\ pc[d] = "loop"
    /\ i[d] < NRows(df[d])
    /\ state[d] = p

\* C12: with positive thresholds in any order, a call in potential_takeoff
\* that processes a row below freefall_ceiling is in airborne after it.
C12_FreefallAlwaysAirborne ==
    [][ \A d \in Dets :
            ( /\ About(d, "potential_takeoff")
              /\ Positive(cfg[d])
              /\ At(df[d].accel_mag, i[d]) < cfg[d].freefall_ceiling
              /\ i'[d] = i[d] + 1 )
            => state'[d] = "airborne" ]_vars

\* C13: an airborne call that processes row i above landing_threshold with
\* elapsed > min_airtime_s / 2 is on the ground after it; it appends exactly
\* one event, from the candidate's start row to row i, if
\* elapsed >= min_airtime_s (equality included), and nothing otherwise.
C13_LandingConfirmsOrDiscards ==
    [][ \A d \in Dets :
            LET el == Elapsed(df[d], jump_start_idx[d], i[d])
            IN  ( /\ About(d, "airborne")
                  /\ At(df[d].accel_mag, i[d]) > cfg[d].landing_threshold
                  /\ 2 * el > cfg[d].min_airtime_s
                  /\ i'[d] = i[d] + 1 )
                => /\ state'[d] = "ground"
                   /\ IF el >= cfg[d].min_airtime_s
                      THEN /\ Len(jumps'[d]) = Len(jumps[d]) + 1
                           /\ SubSeq(jumps'[d], 1, Len(jumps[d])) = jumps[d]
                           /\ jumps'[d][Len(jumps'[d])].start_idx
                                 = jump_start_idx[d]
                           /\ jumps'[d][Len(jumps'[d])].end_idx = i[d]
                           /\ jumps'[d][Len(jumps'[d])].duration_s = el
                      ELSE jumps'[d] = jumps[d] ]_vars

\* the row just processed closed a candidate of exactly min_airtime_s: the
\* call is back on the ground and the last event ends at that row
C13_Witness ==
    /\ pc[1] = "loop"
    /\ i[1] >= 3
    /\ state[1] = "ground"
    /\ jumps[1] # <<>>
    /\ jumps[1][Len(jumps[1])].end_idx = i[1] - 1
    /\ jumps[1][Len(jumps[1])].duration_s = cfg[1].min_airtime_s

\* C14: an airborne call that processes a row more than 5.0 s after the
\* candidate's start, the row not passing the landing gate, is on the
\* ground after it, appends nothing, and holds no event of that candidate.
C14_AirborneTimeoutAbandons ==
    [][ \A d \in Dets :
            LET el == Elapsed(df[d], jump_start_idx[d], i[d])
            IN  ( /\ About(d, "airborne")
                  /\ el > AirborneTimeout
                  /\ ~( /\ At(df[d].accel_mag, i[d]) > cfg[d].landing_threshold
                        /\ 2 * el > cfg[d].min_airtime_s )
                  /\ i'[d] = i[d] + 1 )
                => /\ state'[d] = "ground"
                   /\ jumps'[d] = jumps[d]
                   /\ \A n \in 1 .. Len(jumps'[d]) :
                         jumps'[d][n].start_idx # jump_start_idx[d] ]_vars

\* under the defaults: takeoff at row i-3, freefall at row i-2, and row i-1
\* (not above the takeoff threshold, more than 5 s after the takeoff) has
\* put the call back on the ground without an event
C14_Witness ==
    /\ cfg[1] = DefaultConfig
    /\ pc[1] = "loop"
    /\ i[1] >= 3
    /\ state[1] = "ground"
    /\ jump_start_idx[1] = i[1] - 3
    /\ At(df[1].accel_mag, i[1] - 3) > cfg[1].takeoff_threshold
    /\ At(df[1].accel_mag, i[1] - 2) < cfg[1].freefall_ceiling
    /\ At(df[1].accel_mag, i[1] - 1) <= cfg[1].takeoff_threshold
    /\ Elapsed(df[1], i[1] - 3, i[1] - 1) > AirborneTimeout
    /\ jumps[1] = <<>>

RECURSIVE YawOver(_, _, _)
\* sum of rotation_z[k] * (timestamps[k] - timestamps[k-1]) over lo .. hi
YawOver(f, lo, hi) ==
    IF lo > hi THEN 0
    ELSE YawOver(f, lo, hi - 1)
         + At(f.rotation_z, hi)
           * (At(f.timestamps, hi) - At(f.timestamps, hi - 1))

\* C15: yaw_degrees of an event is the conversion to degrees of the sum of
\* rotation_z[k] * (timestamps[k] - timestamps[k-1]) over the rows
\* start_idx+1 .. end_idx: nothing for the takeoff row, nothing left from an
\* earlier candidate.
C15_YawOverCandidateWindow ==
    \A d \in Dets : \A n \in EventIdx(d) :
        LET e   == jumps[d][n]
            sum == YawOver(df[d], e.start_idx + 1, e.end_idx)
        IN  e.yaw_degrees
              = IF sum >= 0 THEN (sum * 57296) \div 1000
                ELSE 0 - (((0 - sum) * 57296) \div 1000)

\* an event with a non-zero yaw that follows rows in which an earlier
\* candidate accumulated rotation
C15_Witness ==
    \E n \in EventIdx(1) :
        /\ jumps[1][n].yaw_degrees # 0
        /\ jumps[1][n].start_idx >= 2
        /\ \E k \in 0 .. jumps[1][n].start_idx - 2 :
              /\ At(df[1].accel_mag, k) > cfg[1].takeoff_threshold
              /\ At(df[1].rotation_z, k + 1) # 0
              /\ At(df[1].timestamps, k + 1) > At(df[1].timestamps, k)

\* C16: for every event, the row start_idx is above takeoff_threshold, the
\* row end_idx is above landing_threshold and is the landing_impact, and
\* start_time, end_time are the timestamps of those rows, duration_s their
\* difference.
C16_EventEndpoints ==
    \A d \in Dets : \A n \in EventIdx(d) :
        LET e == jumps[d][n]
        IN  /\ e.start_idx \in RowIdx(df[d])
            /\ e.end_idx \in RowIdx(df[d])
            /\ e.end_idx < i[d]
            /\ At(df[d].accel_mag, e.start_idx) > cfg[d].takeoff_threshold
            /\ e.landing_impact = At(df[d].accel_mag, e.end_idx)
            /\ e.landing_impact > cfg[d].landing_threshold
            /\ e.start_time = At(df[d].timestamps, e.start_idx)
            /\ e.end_time = At(df[d].timestamps, e.end_idx)
            /\ e.duration_s = e.end_time - e.start_time

\* an event of non-zero duration whose landing impact is below the takeoff
\* threshold (landing_threshold under takeoff_threshold)
C16_Witness ==
    \E n \in EventIdx(1) :
        /\ jumps[1][n].landing_impact < cfg[1].takeoff_threshold
        /\ jumps[1][n].start_time < jumps[1][n].end_time

\* C17: the windows of the events do not overlap and span three rows or
\* more: each event ends before the next one starts, and
\* end_idx >= start_idx + 2.
C17_WindowsDisjoint ==
    \A d \in Dets :
        /\ \A n \in EventIdx(d) :
              jumps[d][n].end_idx >= jumps[d][n].start_idx + 2
        /\ \A n \in EventIdx(d) :
              n > 1 => jumps[d][n - 1].end_idx < jumps[d][n].start_idx

\* two events on six rows: each spans exactly three rows and the second
\* starts on the row after the first ends
C17_Witness ==
    /\ Len(jumps[1]) = 2
    /\ jumps[1][1].end_idx = jumps[1][1].start_idx + 2
    /\ jumps[1][2].start_idx = jumps[1][1].end_idx + 1
    /\ jumps[1][2].end_idx = jumps[1][2].start_idx + 2

\* C18: sample_rate has no influence: two calls over the same session whose
\* thresholds differ in sample_rate only have the same locals after the
\* same number of rows and return the same list; row 0 is always processed
\* on the ground, where the fallback dt is not used.
C18_SampleRateIrrelevant ==
    /\ \A d \in Dets : (pc[d] = "loop" /\ i[d] = 0) => state[d] = "ground"
    /\ (Entered(1) /\ Entered(2) /\ i[1] = i[2]) => Locals(1) = Locals(2)
    /\ (pc[1] = "returned" /\ pc[2] = "returned") =>
          /\ Len(results) = 2
          /\ results[1] = results[2]

\* both calls have returned the same non-empty list under different
\* sample rates
C18_Witness ==
    /\ pc[1] = "returned" /\ pc[2] = "returned"
    /\ cfg[1].sample_rate # cfg[2].sample_rate
    /\ results[1] # <<>>
    /\ results[1] = results[2]

\* C19: a call in potential_takeoff that processes a row with
\* freefall_ceiling <= accel_mag <= takeoff_threshold stays in
\* potential_takeoff with the same start row, whatever the elapsed time.
C19_PotentialTakeoffNoTimeout ==
    [][ \A d \in Dets :
            ( /\ About(d, "potential_takeoff")
              /\ At(df[d].accel_mag, i[d]) >= cfg[d].freefall_ceiling
              /\ At(df[d].accel_mag, i[d]) <= cfg[d].takeoff_threshold
              /\ i'[d] = i[d] + 1 )
            => /\ state'[d] = "potential_takeoff"
               /\ jump_start_idx'[d] = jump_start_idx[d]
               /\ jumps'[d] = jumps[d] ]_vars

\* still in potential_takeoff after a row more than 5 s after the takeoff
C19_Witness ==
    /\ pc[1] = "loop"
    /\ i[1] >= 2
    /\ state[1] = "potential_takeoff"
    /\ jump_start_idx[1] < i[1] - 1
    /\ Elapsed(df[1], jump_start_idx[1], i[1] - 1) > AirborneTimeout

====
